---------------------------- MODULE Spec2Model ----------------------------
(***************************************************************************)
(* Build scripts of libbfio-sys and libfsntfs-sys and the shared Windows   *)
(* build helper (common-build), as a state machine.                        *)
(*                                                                         *)
(* A state is one run of a build script: its configuration (cargo          *)
(* features, environment variables, host OS), its position in the script   *)
(* (pc), the part of the filesystem the scripts test or create, and what   *)
(* the run has done so far (processes spawned, cargo directives printed).  *)
(* The filesystem and a few history variables survive from one run to the  *)
(* next (Rebuild).                                                         *)
(*                                                                         *)
(* Paths are sequences of components; a string is a path of one component.  *)
(***************************************************************************)
EXTENDS Integers, Sequences, FiniteSets, TLC

\* ---------------------------------------------------------------- bounds

\* Number of runs of a build script on the same filesystem.
MaxRuns == 2

\* Longest header text (in characters) handed to the sanitizer.
MaxLen == 2

\* ----------------------------------------------------------------- paths

\* env::var(..) of a variable that is not set (Err(NotPresent)).
Unset == <<>>

Join(p, c) == Append(p, c)

\* env::current_dir()
CurrentDir == <<"cwd">>

\* The value cargo gives OUT_DIR.
OutDir == <<"out">>

LIBFSNTFS_EXPECTED_DIR_NAME == "libfsntfs-20190104"

\* Values a user may give the *_LIBPATH overrides.
OptBfio == <<"opt", "libbfio">>

OptFsntfs == <<"opt", "libfsntfs">>

\* A value a user may give PYTHON_SYS_EXECUTABLE.
UserPython == <<"py3.exe">>

DefaultPython == <<"python.exe">>

Targets == {<<"x86_64-pc-windows-msvc">>, <<"i686-pc-windows-msvc">>}

\* target.contains("x86_64")
contains_x86_64(t) == t = <<"x86_64-pc-windows-msvc">>

msbuild_platform(t) == IF contains_x86_64(t) THEN "x64" ELSE "Win32"

\* ------------------------------------------------------ header encodings

\* U+FFFD, what the decoder puts for a malformed sequence.
REPLACEMENT == 65533

BOM == 65279

\* Code points the header texts are drawn from: A, e-acute, euro sign, and
\* one outside the basic plane (a surrogate pair in UTF-16).
Chars == {65, 233, 8364, 128512}

RECURSIVE Utf8Encode(_)
\* String::as_bytes(): the UTF-8 bytes of a sequence of code points.
Utf8Encode(cs) ==
    IF cs = <<>> THEN <<>>
    ELSE LET c == Head(cs)
             b == IF c < 128 THEN <<c>>
                  ELSE IF c < 2048 THEN <<192 + (c \div 64), 128 + (c % 64)>>
                  ELSE IF c < 65536 THEN
                      <<224 + (c \div 4096), 128 + ((c \div 64) % 64), 128 + (c % 64)>>
                  ELSE <<240 + (c \div 262144), 128 + ((c \div 4096) % 64),
                         128 + ((c \div 64) % 64), 128 + (c % 64)>>
         IN b \o Utf8Encode(Tail(cs))

RECURSIVE Utf16Units(_)
\* The UTF-16 code units of a sequence of code points.
Utf16Units(cs) ==
    IF cs = <<>> THEN <<>>
    ELSE LET c == Head(cs)
             u == IF c < 65536 THEN <<c>>
                  ELSE <<55296 + ((c - 65536) \div 1024), 56320 + ((c - 65536) % 1024)>>
         IN u \o Utf16Units(Tail(cs))

RECURSIVE UnitsToBytesLE(_)
UnitsToBytesLE(us) ==
    IF us = <<>> THEN <<>>
    ELSE <<Head(us) % 256, Head(us) \div 256>> \o UnitsToBytesLE(Tail(us))

\* What autogen.ps1 writes: the text in UTF-16LE, with a byte order mark
\* when bom is TRUE.
Utf16leEncode(cs, bom) ==
    UnitsToBytesLE(Utf16Units(IF bom THEN <<BOM>> \o cs ELSE cs))

RECURSIVE BytesToUnitsLE(_)
\* Pairs of bytes as little-endian code units; a last byte with no partner
\* is malformed and decodes to U+FFFD.
BytesToUnitsLE(bs) ==
    IF bs = <<>> THEN <<>>
    ELSE IF Len(bs) = 1 THEN <<REPLACEMENT>>
    ELSE <<bs[1] + 256 * bs[2]>> \o BytesToUnitsLE(SubSeq(bs, 3, Len(bs)))

IsHigh(u) == u >= 55296 /\ u <= 56319

IsLow(u) == u >= 56320 /\ u <= 57343

RECURSIVE UnitsToChars(_)
\* Code units to code points: a surrogate pair is one code point, a lone
\* surrogate is malformed and decodes to U+FFFD.
UnitsToChars(us) ==
    IF us = <<>> THEN <<>>
    ELSE IF IsHigh(us[1]) /\ Len(us) >= 2 /\ IsLow(us[2]) THEN
        <<65536 + (us[1] - 55296) * 1024 + (us[2] - 56320)>>
            \o UnitsToChars(SubSeq(us, 3, Len(us)))
    ELSE IF IsHigh(us[1]) \/ IsLow(us[1]) THEN
        <<REPLACEMENT>> \o UnitsToChars(Tail(us))
    ELSE <<us[1]>> \o UnitsToChars(Tail(us))

\* DecodeReaderBytesBuilder::new().encoding(Some(UTF_16LE)): the bytes are
\* decoded as UTF-16LE whatever they are (an explicit encoding turns the
\* detection off), a leading UTF-16LE byte order mark is removed, and
\* malformed input is replaced, never reported.
Utf16leDecode(bs) ==
    LET body == IF Len(bs) >= 2 /\ bs[1] = 255 /\ bs[2] = 254
                THEN SubSeq(bs, 3, Len(bs)) ELSE bs
    IN UnitsToChars(BytesToUnitsLE(body))

\* utf16le_to_utf8 on the bytes of a file that could be opened: read the
\* whole file through the UTF-16LE decoder into a String, then create the
\* file anew and write the String's bytes.  The one h_file.write(..) call
\* is taken to write the whole buffer, as it does on a regular file.
utf16le_to_utf8(bs) == Utf8Encode(Utf16leDecode(bs))


\* ----------------------------------------------------------------- state

VARIABLES
    prog,        \* the build script run: "libbfio", "libfsntfs", or "common"
                 \* (a caller of common-build's build_lib)
    os,          \* host OS the script was compiled for: "posix" / "windows"
    features,    \* cargo features enabled for the run
    env,         \* environment variables: name -> value
    pc,          \* position in the script; "done" / "failed" at its end
    failure,     \* why the run panicked ("none" while it has not)
    mode,        \* "static" / "dynamic" once the script has chosen
    libPath,     \* the library source tree (lib_path / libfsntfs)
    shared,      \* build_lib's `shared` argument
    dirs,        \* directories that exist, among those the scripts test
    hfile,       \* bytes of a header autogen.ps1 generates (NoFile: absent)
    trace,       \* this run's events in order: <<event, outcome>>
    linkSearch,  \* path printed as cargo:rustc-link-search (Unset: none)
    include,     \* include folder build_lib returned (Unset: none)
    pythonUsed,  \* program the converter was spawned with (Unset: none)
    checked,     \* paths whose existence this run has tested
    acquired,    \* download_libfsntfs was called in this run
    fetches,     \* reqwest::get calls made in this run
    acqLog,      \* one record per call of download_libfsntfs, over all runs
    locs,        \* <<mode, source tree, output directory>> of every build
    run,         \* number of the current run
    htext,       \* sanitizer check: the header's text
    henc,        \* sanitizer check: the encoding it was first stored in
    applied,     \* sanitizer check: times utf16le_to_utf8 has run on hfile
    once         \* sanitizer check: hfile after the first of them

vars == <<prog, os, features, env, pc, failure, mode, libPath, shared, dirs,
          hfile, trace, linkSearch, include, pythonUsed, checked, acquired,
          fetches, acqLog, locs, run, htext, henc, applied, once>>

config == <<prog, os, env>>

sanvars == <<htext, henc, applied, once>>

NoFile == <<-1>>

\* Text of the generated header in the build runs.
HeaderText == <<65, 233>>

FeatureSets == SUBSET {"static_link", "dynamic_link"}

\* env::var(name)
env_var(name) == IF name \in DOMAIN env THEN env[name] ELSE Unset

\* Exit of an external process as Command::status() reports it: Ok with a
\* zero status, Ok with a non-zero status, or Err (the spawn failed).
Outcomes == {"ok", "nonzero", "spawn_fail"}

\* The converter's spawn can also fail with ErrorKind::NotFound.
ConvertOutcomes == Outcomes \cup {"not_found"}

\* Events of the trace that are external build processes.
ProcessEvents ==
    {"synclibs", "autogen", "configure", "make", "install", "convert", "msbuild"}

\* Command::status().expect(..): panics on Err only; the ExitStatus inside
\* Ok is dropped unread.
expect_passes(o) == o \notin {"spawn_fail", "not_found"}

\* One `Command..status().expect(..)` statement: spawn the process, log it,
\* panic if it could not be spawned, otherwise go on to `nxt`.
Spawn(name, o, nxt) ==
    /\ trace' = Append(trace, <<name, o>>)
    /\ IF expect_passes(o)
       THEN pc' = nxt /\ failure' = failure
       ELSE pc' = "failed" /\ failure' = "ProcessSpawnFailure"

\* ------------------------------------------------------------- locations

PosixTarget(p) == Join(p, "dist")

PosixLinkDir(p) == Join(PosixTarget(p), "lib")

WindowsBuildDir(p) ==
    Join(Join(Join(p, "vs2015"), "Release"), msbuild_platform(env_var("TARGET")))

ExpectedPath == Join(OutDir, LIBFSNTFS_EXPECTED_DIR_NAME)

ModeOf(sh) == IF sh THEN "dynamic" ELSE "static"

\* assert!(path.exists(), ..) on the filesystem d.
AssertExists_skipped(p, d) == TRUE

AssertExists(p, d) == p \in d

\* ------------------------------------------------------------------ Init

\* Environments a run of `p` on `o` can see; variables the script never
\* reads are left out.
Envs(p, o) ==
    IF p = "libbfio" THEN
        {[LIBBFIO_STATIC_LIBPATH |-> s, LIBBFIO_DYNAMIC_LIBPATH |-> d,
          PYTHON_SYS_EXECUTABLE |-> y, TARGET |-> t, OUT_DIR |-> OutDir] :
            s \in {Unset, OptBfio}, d \in {Unset, OptBfio},
            y \in (IF o = "windows" THEN {Unset, UserPython} ELSE {Unset}),
            t \in (IF o = "windows" THEN Targets
                   ELSE {<<"x86_64-unknown-linux-gnu">>})}
    ELSE IF p = "libfsntfs" THEN
        {[LIBFSNTFS_STATIC_LIBPATH |-> s, LIBFSNTFS_DYNAMIC_LIBPATH |-> d,
          OUT_DIR |-> OutDir] :
            s \in {Unset, OptFsntfs}, d \in {Unset, OptFsntfs}}
    ELSE
        {[PYTHON_SYS_EXECUTABLE |-> y, TARGET |-> t] :
            y \in {Unset, UserPython}, t \in Targets}

\* Directories that may exist before the first run: the directory a
\* LIBFSNTFS_DYNAMIC_LIBPATH names, and on Windows a vs2015 directory that
\* came with the source tree or was left by an earlier build.
InitialDirs(p, o) ==
    IF p = "libfsntfs" THEN {{}, {OptFsntfs}}
    ELSE IF p = "common" THEN {{}, {<<"cwd", "libfsntfs", "vs2015">>}}
    ELSE IF o = "windows"
    THEN {{}, {<<"cwd", "libbfio", "vs2015">>, <<"opt", "libbfio", "vs2015">>}}
    ELSE {{}}

\* Where a run starts: the two build scripts at main, a caller of
\* common-build at build_lib's first statement.
EntryPc(p) == IF p = "common" THEN "synclibs" ELSE "main"

Init ==
    /\ prog \in {"libbfio", "libfsntfs", "common"}
    /\ os \in (IF prog = "libbfio" THEN {"posix", "windows"}
               ELSE IF prog = "libfsntfs" THEN {"posix"} ELSE {"windows"})
    /\ env \in Envs(prog, os)
    /\ features \in (IF prog = "common" THEN {{}} ELSE FeatureSets)
    /\ shared \in (IF prog = "common" THEN BOOLEAN ELSE {FALSE})
    /\ mode = IF prog = "common" THEN ModeOf(shared) ELSE "none"
    /\ libPath = IF prog = "common" THEN Join(CurrentDir, "libfsntfs") ELSE Unset
    /\ pc = EntryPc(prog)
    /\ failure = "none"
    /\ dirs \in InitialDirs(prog, os)
    /\ hfile = NoFile
    /\ trace = <<>>
    /\ linkSearch = Unset
    /\ include = Unset
    /\ pythonUsed = Unset
    /\ checked = {}
    /\ acquired = FALSE
    /\ fetches = 0
    /\ acqLog = <<>>
    /\ locs = {}
    /\ run = 1
    /\ htext = HeaderText
    /\ henc = "utf16le"
    /\ applied = 0
    /\ once = NoFile

\* Left alone by every step inside a build function.
frame == <<config, sanvars, features, mode, libPath, shared, run, acqLog,
           acquired, fetches, checked>>

\* The same without `checked`, for the steps that test a path.
testframe == <<config, sanvars, features, mode, libPath, shared, run, acqLog,
               acquired, fetches>>

\* ------------------------------------------------------- libbfio: main

\* main up to the first process build_lib spawns: the feature test,
\* build_and_link_static / build_and_link_dynamic (the source tree and the
\* link-lib directives), and build_lib's entry.
bfio_main ==
    /\ prog = "libbfio" /\ pc = "main"
    /\ LET static == "static_link" \in features
           var == IF static THEN "LIBBFIO_STATIC_LIBPATH"
                  ELSE "LIBBFIO_DYNAMIC_LIBPATH"
       IN /\ mode' = ModeOf(~static)
          /\ libPath' = IF env_var(var) # Unset THEN env_var(var)
                        ELSE Join(CurrentDir, "libbfio")
          /\ shared' = ~static
          /\ trace' = Append(trace,
                             <<"link-lib", IF static THEN "static" ELSE "dylib">>)
    /\ pc' = "synclibs"
    /\ UNCHANGED <<config, sanvars, features, run, acqLog, acquired, fetches,
                   checked, failure, dirs, hfile, linkSearch, include,
                   pythonUsed, locs>>

\* ------------------------------------------- libbfio: build_lib (POSIX)

bfio_synclibs_sh ==
    /\ prog = "libbfio" /\ os = "posix" /\ pc = "synclibs"
    /\ \E o \in Outcomes : Spawn("synclibs", o, "autogen")
    /\ UNCHANGED <<frame, dirs, hfile, linkSearch, include, pythonUsed, locs>>

bfio_autogen_sh ==
    /\ prog = "libbfio" /\ os = "posix" /\ pc = "autogen"
    /\ \E o \in Outcomes : Spawn("autogen", o, "configure")
    /\ UNCHANGED <<frame, dirs, hfile, linkSearch, include, pythonUsed, locs>>

\* configure gets --prefix=<lib_path>/dist whatever `shared` is; `shared`
\* only adds --enable-shared=no.
bfio_configure ==
    /\ prog = "libbfio" /\ os = "posix" /\ pc = "configure"
    /\ \E o \in Outcomes :
        /\ Spawn("configure", o, "make")
        /\ locs' = IF o = "spawn_fail" THEN locs
                   ELSE locs \cup {<<ModeOf(shared), libPath, PosixTarget(libPath)>>}
    /\ UNCHANGED <<frame, dirs, hfile, linkSearch, include, pythonUsed>>

bfio_make ==
    /\ prog = "libbfio" /\ os = "posix" /\ pc = "make"
    /\ \E o \in Outcomes : Spawn("make", o, "install")
    /\ UNCHANGED <<frame, dirs, hfile, linkSearch, include, pythonUsed, locs>>

\* make install: a process that ran may or may not have produced
\* <prefix>/lib, whatever status it ended with.
bfio_make_install ==
    /\ prog = "libbfio" /\ os = "posix" /\ pc = "install"
    /\ \E o \in Outcomes, made \in BOOLEAN :
        /\ Spawn("install", o, "locate")
        /\ dirs' = IF o # "spawn_fail" /\ made
                   THEN dirs \cup {PosixLinkDir(libPath)} ELSE dirs
    /\ UNCHANGED <<frame, hfile, linkSearch, include, pythonUsed, locs>>

\* The assertion on <prefix>/lib, the link-search directive, and the
\* return of <prefix>/include to main.
bfio_locate_posix ==
    /\ prog = "libbfio" /\ os = "posix" /\ pc = "locate"
    /\ IF AssertExists(PosixLinkDir(libPath), dirs)
       THEN /\ trace' = Append(trace, <<"locate", "ok">>)
            /\ linkSearch' = PosixLinkDir(libPath)
            /\ include' = Join(PosixTarget(libPath), "include")
            /\ pc' = "bindgen"
            /\ failure' = failure
       ELSE /\ trace' = Append(trace, <<"locate", "missing">>)
            /\ pc' = "failed"
            /\ failure' = "MissingArtifact"
            /\ UNCHANGED <<linkSearch, include>>
    /\ checked' = checked \cup {PosixLinkDir(libPath)}
    /\ UNCHANGED <<testframe, dirs, hfile, pythonUsed, locs>>

\* ------------------------------------------ libbfio: bindgen and output

bfio_bindgen ==
    /\ prog = "libbfio" /\ pc = "bindgen"
    /\ \E ok \in BOOLEAN :
        IF ok THEN /\ trace' = Append(trace, <<"bindgen", "ok">>)
                   /\ pc' = "write"
                   /\ failure' = failure
        ELSE /\ trace' = Append(trace, <<"bindgen", "err">>)
             /\ pc' = "failed"
             /\ failure' = "BindgenFailure"
    /\ UNCHANGED <<frame, dirs, hfile, linkSearch, include, pythonUsed, locs>>

bfio_write_bindings ==
    /\ prog = "libbfio" /\ pc = "write"
    /\ \E ok \in BOOLEAN :
        IF ok THEN /\ trace' = Append(trace, <<"write_bindings", "ok">>)
                   /\ pc' = "done"
                   /\ failure' = failure
        ELSE /\ trace' = Append(trace, <<"write_bindings", "err">>)
             /\ pc' = "failed"
             /\ failure' = "WriteFailure"
    /\ UNCHANGED <<frame, dirs, hfile, linkSearch, include, pythonUsed, locs>>

\* ------------------------------------------------- build_lib (Windows)
\* libbfio-sys/build.rs and common-build/src/windows.rs each hold a Windows
\* build_lib.  The statements the two share word for word are the Win*
\* operators; each script has its own action for every step.

Under(d, root) == Len(d) >= Len(root) /\ SubSeq(d, 1, Len(root)) = root

Vs2015(p) == Join(p, "vs2015")

\* libbfio-sys: env::var("PYTHON_SYS_EXECUTABLE "), the name ending in a
\* space, or "python.exe".
bfio_python_exec ==
    IF env_var("PYTHON_SYS_EXECUTABLE ") # Unset
    THEN env_var("PYTHON_SYS_EXECUTABLE ") ELSE DefaultPython

\* common-build: env::var("PYTHON_SYS_EXECUTABLE") or "python.exe".
common_python_exec ==
    IF env_var("PYTHON_SYS_EXECUTABLE") # Unset
    THEN env_var("PYTHON_SYS_EXECUTABLE") ELSE DefaultPython

WinSynclibs ==
    /\ pc = "synclibs"
    /\ \E o \in Outcomes : Spawn("synclibs", o, "autogen")
    /\ UNCHANGED <<frame, dirs, hfile, linkSearch, include, pythonUsed, locs>>

\* autogen.ps1 writes the generated headers in UTF-16LE when it succeeds.
WinAutogen ==
    /\ pc = "autogen"
    /\ \E o \in Outcomes :
        /\ Spawn("autogen", o, "remove")
        /\ hfile' = IF o = "ok" THEN Utf16leEncode(HeaderText, TRUE) ELSE hfile
    /\ UNCHANGED <<frame, dirs, linkSearch, include, pythonUsed, locs>>

\* fs::remove_dir_all(<lib_path>/vs2015): Ok and the tree is gone when it
\* exists, Err when it does not.
RemoveDirAll(d, root) == {x \in d : ~Under(x, root)}

\* libbfio-sys: remove_dir_all(..).unwrap()
bfio_remove_vs2015 ==
    /\ prog = "libbfio" /\ os = "windows" /\ pc = "remove"
    /\ IF Vs2015(libPath) \in dirs
       THEN /\ dirs' = RemoveDirAll(dirs, Vs2015(libPath))
            /\ trace' = Append(trace, <<"remove_vs2015", "ok">>)
            /\ pc' = "convert"
            /\ failure' = failure
       ELSE /\ dirs' = dirs
            /\ trace' = Append(trace, <<"remove_vs2015", "err">>)
            /\ pc' = "failed"
            /\ failure' = "RemoveStaleDirFailed"
    /\ UNCHANGED <<frame, hfile, linkSearch, include, pythonUsed, locs>>

\* common-build: let _ = remove_dir_all(..)
common_remove_vs2015 ==
    /\ prog = "common" /\ pc = "remove"
    /\ dirs' = RemoveDirAll(dirs, Vs2015(libPath))
    /\ trace' = Append(trace, <<"remove_vs2015",
                                IF Vs2015(libPath) \in dirs THEN "ok" ELSE "err">>)
    /\ pc' = "convert"
    /\ UNCHANGED <<frame, failure, hfile, linkSearch, include, pythonUsed, locs>>

\* libbfio-sys: the converter under python_exec, .status().expect(..)
bfio_convert ==
    /\ prog = "libbfio" /\ os = "windows" /\ pc = "convert"
    /\ \E o \in ConvertOutcomes :
        /\ Spawn("convert", o, "msbuild")
        /\ dirs' = IF o = "ok" THEN dirs \cup {Vs2015(libPath)} ELSE dirs
    /\ pythonUsed' = bfio_python_exec
    /\ UNCHANGED <<frame, hfile, linkSearch, include, locs>>

\* common-build: the converter under python_exec; the match on the Result
\* tells a missing interpreter from any other spawn error.
common_convert ==
    /\ prog = "common" /\ pc = "convert"
    /\ \E o \in ConvertOutcomes :
        /\ trace' = Append(trace, <<"convert", o>>)
        /\ dirs' = IF o = "ok" THEN dirs \cup {Vs2015(libPath)} ELSE dirs
        /\ IF o = "not_found"
           THEN pc' = "failed" /\ failure' = "InterpreterNotFound"
           ELSE IF o = "spawn_fail"
           THEN pc' = "failed" /\ failure' = "ConvertFailed"
           ELSE pc' = "msbuild" /\ failure' = failure
    /\ pythonUsed' = common_python_exec
    /\ UNCHANGED <<frame, hfile, linkSearch, include, locs>>

\* windows_registry::find(..).expect(..), then msbuild on the converted
\* solution; `shared` only adds /p:ConfigurationType=StaticLibrary, the
\* output directory is vs2015\Release\<platform> either way.
WinMsbuild ==
    /\ pc = "msbuild"
    /\ \E found \in BOOLEAN, o \in Outcomes, made \in BOOLEAN :
        IF ~found
        THEN /\ trace' = Append(trace, <<"find_msbuild", "err">>)
             /\ pc' = "failed"
             /\ failure' = "MsbuildNotFound"
             /\ UNCHANGED <<dirs, locs>>
        ELSE /\ Spawn("msbuild", o, "locate")
             /\ dirs' = IF o # "spawn_fail" /\ made
                        THEN dirs \cup {WindowsBuildDir(libPath)} ELSE dirs
             /\ locs' = IF o = "spawn_fail" THEN locs
                        ELSE locs \cup {<<ModeOf(shared), libPath,
                                          WindowsBuildDir(libPath)>>}
    /\ UNCHANGED <<frame, hfile, linkSearch, include, pythonUsed>>

\* The assertion on the build directory and the link-search directive.
WinLocate ==
    /\ pc = "locate"
    /\ IF AssertExists(WindowsBuildDir(libPath), dirs)
       THEN /\ trace' = Append(trace, <<"locate", "ok">>)
            /\ linkSearch' = WindowsBuildDir(libPath)
            /\ pc' = "sanitize"
            /\ failure' = failure
       ELSE /\ trace' = Append(trace, <<"locate", "missing">>)
            /\ pc' = "failed"
            /\ failure' = "MissingArtifact"
            /\ linkSearch' = linkSearch
    /\ checked' = checked \cup {WindowsBuildDir(libPath)}
    /\ UNCHANGED <<testframe, dirs, hfile, include, pythonUsed, locs>>

\* utf16le_to_utf8(..).unwrap() on the generated headers (one stands for
\* all of them), then the return of <lib_path>/include.  File::open fails
\* on a header that was never generated.
WinSanitize(nxt) ==
    /\ pc = "sanitize"
    /\ IF hfile = NoFile
       THEN /\ trace' = Append(trace, <<"sanitize", "err">>)
            /\ pc' = "failed"
            /\ failure' = "HeaderUnreadable"
            /\ UNCHANGED <<hfile, include>>
       ELSE /\ trace' = Append(trace, <<"sanitize", "ok">>)
            /\ hfile' = utf16le_to_utf8(hfile)
            /\ include' = Join(libPath, "include")
            /\ pc' = nxt
            /\ failure' = failure
    /\ UNCHANGED <<frame, dirs, linkSearch, pythonUsed, locs>>

bfio_synclibs_ps1 == prog = "libbfio" /\ os = "windows" /\ WinSynclibs

bfio_autogen_ps1 == prog = "libbfio" /\ os = "windows" /\ WinAutogen

bfio_msbuild == prog = "libbfio" /\ os = "windows" /\ WinMsbuild

bfio_locate_windows == prog = "libbfio" /\ os = "windows" /\ WinLocate

bfio_sanitize == prog = "libbfio" /\ os = "windows" /\ WinSanitize("bindgen")

common_synclibs_ps1 == prog = "common" /\ WinSynclibs

common_autogen_ps1 == prog = "common" /\ WinAutogen

common_msbuild == prog = "common" /\ WinMsbuild

common_locate == prog = "common" /\ WinLocate

common_sanitize == prog = "common" /\ WinSanitize("done")

\* ----------------------------------------------------- libfsntfs: main

\* bindgen::Builder..generate().expect(..): main's first statement.
fsntfs_bindgen ==
    /\ prog = "libfsntfs" /\ pc = "main"
    /\ \E ok \in BOOLEAN :
        IF ok THEN /\ trace' = Append(trace, <<"bindgen", "ok">>)
                   /\ pc' = "write"
                   /\ failure' = failure
        ELSE /\ trace' = Append(trace, <<"bindgen", "err">>)
             /\ pc' = "failed"
             /\ failure' = "BindgenFailure"
    /\ UNCHANGED <<frame, dirs, hfile, linkSearch, include, pythonUsed, locs>>

fsntfs_write_bindings ==
    /\ prog = "libfsntfs" /\ pc = "write"
    /\ \E ok \in BOOLEAN :
        IF ok THEN /\ trace' = Append(trace, <<"write_bindings", "ok">>)
                   /\ pc' = "dispatch"
                   /\ failure' = failure
        ELSE /\ trace' = Append(trace, <<"write_bindings", "err">>)
             /\ pc' = "failed"
             /\ failure' = "WriteFailure"
    /\ UNCHANGED <<frame, dirs, hfile, linkSearch, include, pythonUsed, locs>>

\* build_static: `if let Ok(local_install) = env::var(..)`
fsntfs_local_install_ignored == Unset

fsntfs_local_install == env_var("LIBFSNTFS_STATIC_LIBPATH")

\* The feature test that ends main, and build_static up to its source
\* tree: the override when it is set, download_libfsntfs() otherwise.
fsntfs_dispatch ==
    /\ prog = "libfsntfs" /\ pc = "dispatch"
    /\ IF "dynamic_link" \in features
       THEN /\ mode' = "static"
            /\ IF fsntfs_local_install # Unset
               THEN libPath' = fsntfs_local_install /\ pc' = "configure"
               ELSE libPath' = libPath /\ pc' = "download"
       ELSE /\ mode' = "dynamic"
            /\ libPath' = libPath
            /\ pc' = "link_dynamic"
    /\ UNCHANGED <<config, sanvars, features, shared, run, acqLog, acquired,
                   fetches, checked, failure, dirs, hfile, trace, linkSearch,
                   include, pythonUsed, locs>>

\* What the fetch and the extraction can come to:
\*   net_err         reqwest::get, File::create or io::copy returns Err
\*   unpack_ok       the archive unpacks and holds the expected directory
\*   unpack_partial  unpack returns Err after creating the directory
\*   unpack_err      unpack returns Err before creating it
\*   wrong_layout    the archive unpacks and holds no such directory
FetchResults ==
    {"net_err", "unpack_ok", "unpack_partial", "unpack_err", "wrong_layout"}

\* `if !expected_path.exists()` before the download.
cache_miss_always(d) == TRUE

cache_miss(d) == ExpectedPath \notin d

\* download_libfsntfs() and the .expect(..) on its result in build_static.
download_libfsntfs ==
    /\ prog = "libfsntfs" /\ pc = "download"
    /\ acquired' = TRUE
    /\ checked' = checked \cup {ExpectedPath}
    /\ \E r \in FetchResults :
        LET fetch == cache_miss(dirs)
            after == IF fetch /\ r \in {"unpack_ok", "unpack_partial"}
                     THEN dirs \cup {ExpectedPath} ELSE dirs
            early == fetch /\ r \in {"net_err", "unpack_partial", "unpack_err"}
            ok == ~early /\ ExpectedPath \in after
        IN /\ dirs' = after
           /\ fetches' = IF fetch THEN fetches + 1 ELSE fetches
           /\ acqLog' = Append(acqLog,
                  [pre |-> ExpectedPath \in dirs,
                   fetched |-> IF fetch THEN 1 ELSE 0,
                   ok |-> ok,
                   path |-> IF ok THEN ExpectedPath ELSE Unset])
           /\ trace' = Append(trace, <<"download",
                                       IF ~fetch THEN "cached" ELSE r>>)
           /\ IF ok
              THEN libPath' = ExpectedPath /\ pc' = "configure" /\ failure' = failure
              ELSE /\ libPath' = libPath
                   /\ pc' = "failed"
                   /\ failure' = IF early THEN "DownloadFailed"
                                 ELSE "SourceUnavailable"
    /\ UNCHANGED <<config, sanvars, features, mode, shared, run, hfile,
                   linkSearch, include, pythonUsed, locs>>

\* ---------------------------------------------- libfsntfs: build_static

fsntfs_configure ==
    /\ prog = "libfsntfs" /\ pc = "configure"
    /\ \E o \in Outcomes :
        /\ Spawn("configure", o, "make")
        /\ locs' = IF o = "spawn_fail" THEN locs
                   ELSE locs \cup {<<"static", libPath, PosixTarget(libPath)>>}
    /\ UNCHANGED <<frame, dirs, hfile, linkSearch, include, pythonUsed>>

fsntfs_make ==
    /\ prog = "libfsntfs" /\ pc = "make"
    /\ \E o \in Outcomes : Spawn("make", o, "install")
    /\ UNCHANGED <<frame, dirs, hfile, linkSearch, include, pythonUsed, locs>>

fsntfs_make_install ==
    /\ prog = "libfsntfs" /\ pc = "install"
    /\ \E o \in Outcomes, made \in BOOLEAN :
        /\ Spawn("install", o, "locate")
        /\ dirs' = IF o # "spawn_fail" /\ made
                   THEN dirs \cup {PosixLinkDir(libPath)} ELSE dirs
    /\ UNCHANGED <<frame, hfile, linkSearch, include, pythonUsed, locs>>

\* The assertion on <prefix>/lib, then the link-lib and link-search
\* directives; build_static returns nothing.
fsntfs_locate ==
    /\ prog = "libfsntfs" /\ pc = "locate"
    /\ IF AssertExists(PosixLinkDir(libPath), dirs)
       THEN /\ trace' = trace \o <<<<"locate", "ok">>, <<"link-lib", "static">>>>
            /\ linkSearch' = PosixLinkDir(libPath)
            /\ pc' = "done"
            /\ failure' = failure
       ELSE /\ trace' = Append(trace, <<"locate", "missing">>)
            /\ pc' = "failed"
            /\ failure' = "MissingArtifact"
            /\ linkSearch' = linkSearch
    /\ checked' = checked \cup {PosixLinkDir(libPath)}
    /\ UNCHANGED <<testframe, dirs, hfile, include, pythonUsed, locs>>

\* ---------------------------------------------- libfsntfs: link_dynamic

fsntfs_link_dynamic ==
    /\ prog = "libfsntfs" /\ pc = "link_dynamic"
    /\ LET location == env_var("LIBFSNTFS_DYNAMIC_LIBPATH")
       IN IF location = Unset
          THEN /\ trace' = Append(trace, <<"link-lib", "dylib">>)
               /\ pc' = "done"
               /\ UNCHANGED <<checked, linkSearch, failure>>
          ELSE /\ checked' = checked \cup {location}
               /\ IF AssertExists(location, dirs)
                  THEN /\ linkSearch' = location
                       /\ trace' = Append(trace, <<"link-lib", "dylib">>)
                       /\ pc' = "done"
                       /\ failure' = failure
                  ELSE /\ linkSearch' = linkSearch
                       /\ trace' = trace
                       /\ pc' = "failed"
                       /\ failure' = "MissingArtifact"
    /\ UNCHANGED <<config, sanvars, features, mode, libPath, shared, run,
                   acqLog, acquired, fetches, dirs, hfile, include,
                   pythonUsed, locs>>

\* ------------------------------------------------------------ next runs

\* The build script is run again on the filesystem the last run left, with
\* the same environment; the features (for a caller of build_lib, the
\* `shared` argument) may differ.
Rebuild ==
    /\ pc \in {"done", "failed"}
    /\ run < MaxRuns
    /\ run' = run + 1
    /\ features' \in (IF prog = "common" THEN {{}} ELSE FeatureSets)
    /\ shared' \in (IF prog = "common" THEN BOOLEAN ELSE {FALSE})
    /\ mode' = IF prog = "common" THEN ModeOf(shared') ELSE "none"
    /\ libPath' = IF prog = "common" THEN Join(CurrentDir, "libfsntfs") ELSE Unset
    /\ pc' = EntryPc(prog)
    /\ failure' = "none"
    /\ trace' = <<>>
    /\ linkSearch' = Unset
    /\ include' = Unset
    /\ pythonUsed' = Unset
    /\ checked' = {}
    /\ acquired' = FALSE
    /\ fetches' = 0
    /\ UNCHANGED <<config, sanvars, dirs, hfile, acqLog, locs>>

Next ==
    \/ bfio_main
    \/ bfio_synclibs_sh
    \/ bfio_autogen_sh
    \/ bfio_configure
    \/ bfio_make
    \/ bfio_make_install
    \/ bfio_locate_posix
    \/ bfio_synclibs_ps1
    \/ bfio_autogen_ps1
    \/ bfio_remove_vs2015
    \/ bfio_convert
    \/ bfio_msbuild
    \/ bfio_locate_windows
    \/ bfio_sanitize
    \/ bfio_bindgen
    \/ bfio_write_bindings
    \/ common_synclibs_ps1
    \/ common_autogen_ps1
    \/ common_remove_vs2015
    \/ common_convert
    \/ common_msbuild
    \/ common_locate
    \/ common_sanitize
    \/ fsntfs_bindgen
    \/ fsntfs_write_bindings
    \/ fsntfs_dispatch
    \/ download_libfsntfs
    \/ fsntfs_configure
    \/ fsntfs_make
    \/ fsntfs_make_install
    \/ fsntfs_locate
    \/ fsntfs_link_dynamic
    \/ Rebuild

Spec == Init /\ [][Next]_vars

\* ------------------------------------------- the sanitizer on its own

\* Times the sanitizer is applied to one header.
MaxApply == 2

RECURSIVE TextsOfLen(_)
TextsOfLen(n) ==
    IF n = 0 THEN {<<>>}
    ELSE {Append(t, c) : t \in TextsOfLen(n - 1), c \in Chars}

\* Header texts of up to MaxLen characters.
Texts == UNION {TextsOfLen(n) : n \in 0..MaxLen}

\* The bytes of a header holding text t in encoding e.
Stored(t, e) ==
    IF e = "utf8" THEN Utf8Encode(t)
    ELSE Utf16leEncode(t, e = "utf16le-bom")

\* A header of either encoding on disk, and nothing else under way.
InitSanitize ==
    /\ htext \in Texts
    /\ henc \in {"utf8", "utf16le", "utf16le-bom"}
    /\ hfile = Stored(htext, henc)
    /\ applied = 0
    /\ once = NoFile
    /\ prog = "common"
    /\ os = "windows"
    /\ env = [PYTHON_SYS_EXECUTABLE |-> Unset, TARGET |-> <<"x86_64-pc-windows-msvc">>]
    /\ features = {}
    /\ shared = FALSE
    /\ mode = "static"
    /\ libPath = Join(CurrentDir, "libfsntfs")
    /\ pc = "sanitize"
    /\ failure = "none"
    /\ dirs = {}
    /\ trace = <<>>
    /\ linkSearch = Unset
    /\ include = Unset
    /\ pythonUsed = Unset
    /\ checked = {}
    /\ acquired = FALSE
    /\ fetches = 0
    /\ acqLog = <<>>
    /\ locs = {}
    /\ run = 1

\* One call utf16le_to_utf8(&h_file_path) on the header.
sanitize_header ==
    /\ applied < MaxApply
    /\ hfile' = utf16le_to_utf8(hfile)
    /\ applied' = applied + 1
    /\ once' = IF applied = 0 THEN hfile' ELSE once
    /\ UNCHANGED <<config, features, pc, failure, mode, libPath, shared, dirs,
                   trace, linkSearch, include, pythonUsed, checked, acquired,
                   fetches, acqLog, locs, run, htext, henc>>

NextSanitize == sanitize_header

SpecSanitize == InitSanitize /\ [][NextSanitize]_vars

\* ------------------------------------------------------------ properties

Events == 1..Len(trace)

\* The static-libpath override of the library being built.
StaticOverride ==
    IF prog = "libbfio" THEN env_var("LIBBFIO_STATIC_LIBPATH")
    ELSE IF prog = "libfsntfs" THEN env_var("LIBFSNTFS_STATIC_LIBPATH")
    ELSE Unset

\* The link directory the Artifact Locator asserts for the current build.
LinkDir ==
    IF os = "windows" THEN WindowsBuildDir(libPath) ELSE PosixLinkDir(libPath)

LocateReached == \E i \in Events : trace[i][1] = "locate"

\* C1: in the POSIX pipeline a step whose process did not exit with status
\* zero is the last step invoked, and the run has failed: no later step
\* (in particular no `make install` after a failed `make`) is spawned.
C1_FailedStepAborts ==
    os = "posix" =>
        \A i \in Events :
            (trace[i][1] \in ProcessEvents /\ trace[i][2] # "ok") =>
                /\ pc = "failed"
                /\ \A j \in Events : j > i => trace[j][1] \notin ProcessEvents

\* C2: in both libraries the link mode follows the feature flag: with only
\* dynamic_link selected the script neither takes the static path nor
\* prints a static link-lib directive nor acquires the source; with only
\* static_link selected it never takes the dynamic path nor prints a dylib
\* directive.
C2_ModeFollowsFlag ==
    prog \in {"libbfio", "libfsntfs"} =>
        /\ features = {"dynamic_link"} =>
            /\ mode # "static"
            /\ ~acquired
            /\ \A i \in Events : trace[i] # <<"link-lib", "static">>
        /\ features = {"static_link"} =>
            /\ mode # "dynamic"
            /\ \A i \in Events : trace[i] # <<"link-lib", "dylib">>

\* C3: every binding-generation or bindings-write event of a run comes
\* after a passed link-directory assertion, with every build process
\* before it exited with status zero.
C3_BindgenAfterBuild ==
    prog \in {"libbfio", "libfsntfs"} =>
        \A i \in Events :
            trace[i][1] \in {"bindgen", "write_bindings"} =>
                /\ \E j \in 1..(i - 1) : trace[j] = <<"locate", "ok">>
                /\ \A j \in 1..(i - 1) :
                       trace[j][1] \in ProcessEvents => trace[j][2] = "ok"

FirstOk(i) == acqLog[i].ok /\ \A j \in 1..(i - 1) : ~acqLog[j].ok

\* After the first call that returned Ok, every call returns the same path
\* without a fetch.
LaterCallsCached ==
    \A i \in 1..Len(acqLog) :
        FirstOk(i) =>
            \A k \in (i + 1)..Len(acqLog) :
                /\ acqLog[k].ok
                /\ acqLog[k].fetched = 0
                /\ acqLog[k].path = acqLog[i].path

NoFetchWhenPresent ==
    \A i \in 1..Len(acqLog) : acqLog[i].pre => acqLog[i].fetched = 0

\* C4 as stated: download_libfsntfs fetches nothing when the expected
\* directory exists at entry, the first call that succeeds has fetched
\* exactly once, and every later call returns the same path with no fetch.
C4_FirstSuccessFetchesOnce ==
    /\ NoFetchWhenPresent
    /\ \A i \in 1..Len(acqLog) : FirstOk(i) => acqLog[i].fetched = 1
    /\ LaterCallsCached

\* C4 amended: download_libfsntfs fetches nothing when the expected
\* directory exists at entry and exactly once when it does not; so the
\* first call that succeeds has fetched once, or not at all when a failed
\* earlier call left the directory behind; every later call returns the
\* same path with no fetch.
C4_FetchOnlyWhenAbsent ==
    /\ NoFetchWhenPresent
    /\ \A i \in 1..Len(acqLog) : ~acqLog[i].pre => acqLog[i].fetched = 1
    /\ \A i \in 1..Len(acqLog) :
           (FirstOk(i) /\ acqLog[i].fetched = 0) =>
               \E j \in 1..(i - 1) : ~acqLog[j].ok /\ acqLog[j].fetched = 1
    /\ LaterCallsCached
    /\ fetches <= 1

\* A first call that fetched and succeeded, then a call that found the
\* directory and fetched nothing.
C4_Witness ==
    /\ Len(acqLog) >= 2
    /\ acqLog[1].ok /\ acqLog[1].fetched = 1
    /\ acqLog[2].ok /\ acqLog[2].pre /\ acqLog[2].fetched = 0

\* C5: in a static build from an override path, once the Artifact Locator
\* has run with the link directory absent, the run has failed with
\* MissingArtifact, has printed no link-search directive and has returned
\* no include path.
C5_MissingLinkDirAborts ==
    (/\ prog \in {"libbfio", "libfsntfs"}
     /\ mode = "static"
     /\ StaticOverride # Unset
     /\ LocateReached
     /\ LinkDir \notin dirs) =>
        /\ pc = "failed"
        /\ failure = "MissingArtifact"
        /\ linkSearch = Unset
        /\ include = Unset

\* A static build from an override whose steps all ran and left no link
\* directory, stopped by the assertion.
C5_Witness ==
    /\ prog \in {"libbfio", "libfsntfs"}
    /\ mode = "static"
    /\ StaticOverride # Unset
    /\ libPath = StaticOverride
    /\ Len(trace) > 0 /\ trace[Len(trace)] = <<"locate", "missing">>
    /\ \E i \in Events : trace[i][1] = "install"
    /\ failure = "MissingArtifact"

\* C6: after the sanitizer has run on a header, stored as utf16-le or as
\* utf8, the file is the utf8 encoding of the header's text; a second run
\* leaves the file as the first left it.
C6_SanitizerPreservesText ==
    /\ applied >= 1 => hfile = Utf8Encode(htext)
    /\ applied >= 2 => hfile = once

\* C7: no source tree has a static build and a dynamic build with the same
\* output directory.
C7_DistinctOutputLocations ==
    \A a \in locs, b \in locs :
        (a[1] = "static" /\ b[1] = "dynamic" /\ a[2] = b[2]) => a[3] # b[3]

\* C8: with the static-libpath override set, no run calls the Source
\* Acquirer or fetches, and a static build takes the override as its source
\* tree without testing that the path exists.
C8_OverrideUsedDirectly ==
    (prog \in {"libbfio", "libfsntfs"} /\ StaticOverride # Unset) =>
        /\ ~acquired
        /\ fetches = 0
        /\ \A i \in Events : trace[i][1] # "download"
        /\ mode = "static" =>
            /\ libPath = StaticOverride
            /\ StaticOverride \notin checked

\* A static libfsntfs build from the override that has reached its build
\* steps.
C8_Witness ==
    /\ prog = "libfsntfs"
    /\ mode = "static"
    /\ StaticOverride # Unset
    /\ libPath = StaticOverride
    /\ \E i \in Events : trace[i][1] = "configure"

\* C9: no Windows run fails at the removal of the stale vs2015 directory:
\* a failed run never ends with the removal as its last event.
C9_StaleDirRemovalNeverAborts ==
    os = "windows" =>
        ~(/\ pc = "failed"
          /\ Len(trace) > 0
          /\ trace[Len(trace)][1] = "remove_vs2015")

\* C10: the converter is spawned with the value of PYTHON_SYS_EXECUTABLE
\* when the variable is set and with python.exe when it is not.
C10_InterpreterFollowsOverride ==
    pythonUsed # Unset =>
        pythonUsed = IF env_var("PYTHON_SYS_EXECUTABLE") # Unset
                     THEN env_var("PYTHON_SYS_EXECUTABLE") ELSE DefaultPython

=============================================================================
